---- MODULE Spec2Model ----
(***************************************************************************)
(* Model of the EEVEE sampling module                                      *)
(* (source/blender/draw/engines/eevee/eevee_sampling.cc).                  *)
(*                                                                         *)
(* The state is the Sampling object's fields together with the parts of    *)
(* the owning Instance and Scene that the handlers read.  Every public     *)
(* method is one action.  Random numbers are exact rationals <<num, den>>; *)
(* the double -> float narrowing of the dimension slots is not modelled.   *)
(***************************************************************************)
EXTENDS Integers, Sequences, FiniteSets, TLC

(***************************************************************************)
(* Bounds of the model.                                                    *)
(***************************************************************************)
\* step() is taken only while both counters are below this value.
MaxSample == 6

\* The same bound where the depth of field web is walked.
MaxDofSample == 20

\* Longest cdf and inverted_cdf vector.
MaxCdfLen == 3

(***************************************************************************)
(* Constants of eevee_sampling.hh (the header is not part of src/).        *)
(***************************************************************************)
dof_web_density_ == 6
infinite_sample_count_ == 16777215
interactive_sample_aa_ == 8
interactive_sample_raytrace_ == 32
interactive_sample_volume_ == 32

\* <<interactive_mode_threshold, interactive_sample_max_>>: the header fixes
\* one pair; the model explores both orderings of the two constants.
InteractiveConstants == {<<2, 4>>, <<4, 2>>}

(***************************************************************************)
(* Instance context (eevee_instance.hh, not part of src/).                 *)
(***************************************************************************)
Contexts == {"viewport", "viewport_image_render", "render", "baking"}

is_viewport(c) == c \in {"viewport", "viewport_image_render"}

is_image_render(c) == c \in {"viewport_image_render", "render"}

is_viewport_image_render(c) == c = "viewport_image_render"

is_baking(c) == c = "baking"

(***************************************************************************)
(* Scene settings read by init(scene) and end_sync().                      *)
(* Clamp values are decimal floats <<mantissa, exponent>>.                 *)
(***************************************************************************)
ClampConfigs ==
  { [sun_threshold |-> <<5, 0>>, clamp_surface_direct |-> <<0, 0>>,
     clamp_surface_indirect |-> <<10, 0>>, clamp_volume_direct |-> <<-1, 0>>,
     clamp_volume_indirect |-> <<3, 0>>],
    [sun_threshold |-> <<0, 0>>, clamp_surface_direct |-> <<7, 0>>,
     clamp_surface_indirect |-> <<-2, 0>>, clamp_volume_direct |-> <<1, 0>>,
     clamp_volume_indirect |-> <<0, 0>>] }

SceneOf(vls, taa, taar, px, mb, mbs, dof, reproj, cl) ==
  [view_layer_samples |-> vls, taa_samples |-> taa, taa_render_samples |-> taar,
   pixel_size |-> px, mblur |-> mb, motion_blur_steps |-> mbs,
   dof_jitter |-> dof, taa_reprojection |-> reproj, clamp |-> cl]

\* Every combination of settings, for the sample-count derivation.
AllScenes ==
  { SceneOf(vls, taa, taar, px, mb, mbs, dof, reproj, cl) :
      vls \in {0, 2}, taa \in {0, 10}, taar \in {0, 10}, px \in {1, 4},
      mb \in BOOLEAN, mbs \in {1, 3}, dof \in BOOLEAN, reproj \in {TRUE},
      cl \in ClampConfigs }

\* The settings that matter to the counters, for the state machine.
SyncScenes ==
  { SceneOf(0, IF dof THEN 10 ELSE 0, 1, 1, FALSE, 1, dof, reproj, cl) :
      dof \in BOOLEAN, reproj \in BOOLEAN,
      cl \in {CHOOSE c \in ClampConfigs : c.sun_threshold = <<5, 0>>} }

GridBakeSamples == {0, 4}

ScalingFactors == {1, 2}

(***************************************************************************)
(* Integer helpers (BLI_math_base).                                        *)
(***************************************************************************)
max_ii(a, b) == IF a > b THEN a ELSE b

square_i(a) == a * a

divide_ceil_u(a, b) == (a + b - 1) \div b

(***************************************************************************)
(* Web pattern helpers (eevee_sampling.hh, not part of src/).              *)
(***************************************************************************)
\* 1 centre sample plus ring k holding k * density samples.
sampling_web_sample_count_get(web_density, in_ring_count) ==
  ((in_ring_count * in_ring_count + in_ring_count) \div 2) * web_density + 1

\* Inverse of the above: the least ring count whose web holds sample_count
\* (the positive root of the polynomial, rounded up), found by bisection.
RECURSIVE RingUpper(_, _, _)
RingUpper(web_density, sample_count, r) ==
  IF sampling_web_sample_count_get(web_density, r) >= sample_count
    THEN r
    ELSE RingUpper(web_density, sample_count, 2 * r + 1)

RECURSIVE RingSearch(_, _, _, _)
RingSearch(web_density, sample_count, lo, hi) ==
  IF lo >= hi
    THEN hi
    ELSE LET mid == (lo + hi) \div 2
         IN IF sampling_web_sample_count_get(web_density, mid) >= sample_count
              THEN RingSearch(web_density, sample_count, lo, mid)
              ELSE RingSearch(web_density, sample_count, mid + 1, hi)

sampling_web_ring_count_get(web_density, sample_count) ==
  RingSearch(web_density, sample_count, 0,
             RingUpper(web_density, sample_count, 0))

VARIABLES
  ctx,                  \* inst_: which kind of Instance owns the object
  scene,                \* inst_.scene / view layer settings
  interactive_mode_threshold,
  interactive_sample_max_,
  sample_,
  viewport_sample_,
  sample_count_,
  dof_ring_count_,
  dof_sample_count_,
  motion_blur_steps_,
  reset_,
  interactive_mode_,
  clamp_data_,
  dimensions,           \* data_.dimensions
  infinite_taken,       \* the last init(scene) went through line 43
  is_reset_ret,         \* last value returned by is_reset()
  dof_ret,              \* last result of dof_disk_sample_get()
  syncs_since_reset,    \* end_sync() calls since the last reset(); -1: no reset yet
  cdf,                  \* the caller's cdf vector
  inverted_cdf,         \* the caller's inverted_cdf vector
  invert_trace,         \* per entry of inverted_cdf: the index cdf_invert chose
  last_op               \* the operation that produced this state

vars == <<ctx, scene, interactive_mode_threshold, interactive_sample_max_,
          sample_, viewport_sample_, sample_count_, dof_ring_count_,
          dof_sample_count_, motion_blur_steps_, reset_, interactive_mode_,
          clamp_data_, dimensions, infinite_taken, is_reset_ret, dof_ret,
          syncs_since_reset, cdf, inverted_cdf, invert_trace, last_op>>

(***************************************************************************)
(* Sampling::init(const Scene *scene): sample count derivation.           *)
(***************************************************************************)
RenderSampleCount(sc) ==
  IF sc.view_layer_samples > 0 THEN sc.view_layer_samples
                               ELSE sc.taa_render_samples

TargetSampleCount(c, sc) ==
  IF is_viewport(c) THEN sc.taa_samples ELSE RenderSampleCount(sc)

FloorImageRender_NoFloor(c, n) == n

FloorImageRender(c, n) ==
  IF is_image_render(c) THEN max_ii(1, n) ELSE n

SubstituteInfinite_Forgotten(n) == n

SubstituteInfinite(n) ==
  IF n = 0 THEN infinite_sample_count_ ELSE n

PixelFloor(c, sc, n) ==
  IF is_viewport(c) /\ sc.pixel_size > 1
    THEN max_ii(n, square_i(sc.pixel_size))
    ELSE n

MotionBlurSteps(c, sc) ==
  IF ~is_viewport(c) /\ sc.mblur THEN sc.motion_blur_steps ELSE 1

\* sample_count_ after line 58, before the jittered DoF adjustment.
PreJitterCount(c, sc) ==
  divide_ceil_u(
    PixelFloor(c, sc,
      SubstituteInfinite(FloorImageRender(c, TargetSampleCount(c, sc)))),
    MotionBlurSteps(c, sc))

DofRingCount(sc, n) ==
  IF sc.dof_jitter
    THEN IF n = infinite_sample_count_
           THEN 6
           ELSE sampling_web_ring_count_get(dof_web_density_, n)
    ELSE 0

DofSampleCount(sc, rings) ==
  IF sc.dof_jitter
    THEN sampling_web_sample_count_get(dof_web_density_, rings)
    ELSE 1

DofRoundUp_Truncating(n, dsc) == (n \div dsc) * dsc

DofRoundUp(n, dsc) == divide_ceil_u(n, dsc) * dsc

clamp_value_load_NonNegative(value) ==
  IF value[1] >= 0 THEN value ELSE <<1, 20>>

clamp_value_load(value) ==
  IF value[1] > 0 THEN value ELSE <<1, 20>>

\* BLI_assert(inst_.is_viewport()) of line 42 compiles to nothing in release
\* builds: the substitution of line 43 is taken whenever the count is 0.
InitSceneOver(S) ==
  \E sc \in S :
    /\ LET pre   == PreJitterCount(ctx, sc)
           rings == DofRingCount(sc, pre)
           dsc   == DofSampleCount(sc, rings)
           steps == MotionBlurSteps(ctx, sc)
       IN /\ motion_blur_steps_' = steps
          /\ dof_ring_count_' = rings
          /\ dof_sample_count_' = dsc
          /\ sample_count_' =
               (IF sc.dof_jitter THEN DofRoundUp(pre, dsc) ELSE pre) * steps
    /\ infinite_taken' = (FloorImageRender(ctx, TargetSampleCount(ctx, sc)) = 0)
    /\ clamp_data_' =
         [sun_threshold    |-> clamp_value_load(sc.clamp.sun_threshold),
          surface_direct   |-> clamp_value_load(sc.clamp.clamp_surface_direct),
          surface_indirect |-> clamp_value_load(sc.clamp.clamp_surface_indirect),
          volume_direct    |-> clamp_value_load(sc.clamp.clamp_volume_direct),
          volume_indirect  |-> clamp_value_load(sc.clamp.clamp_volume_indirect)]
    /\ scene' = sc
    /\ last_op' = "init_scene"
    /\ UNCHANGED <<cdf, inverted_cdf, invert_trace, ctx, interactive_mode_threshold, interactive_sample_max_,
                   sample_, viewport_sample_, reset_, interactive_mode_,
                   dimensions, is_reset_ret, dof_ret, syncs_since_reset>>

InitScene == InitSceneOver(SyncScenes)

InitSceneAny == InitSceneOver(AllScenes)

(***************************************************************************)
(* Sampling::init(const Object &probe_object)                              *)
(***************************************************************************)
InitProbe ==
  \E grid_bake_samples \in GridBakeSamples :
    /\ is_baking(ctx)
    /\ sample_count_' = max_ii(1, grid_bake_samples)
    /\ sample_' = 0
    /\ last_op' = "init_probe"
    /\ UNCHANGED <<cdf, inverted_cdf, invert_trace, ctx, scene, interactive_mode_threshold,
                   interactive_sample_max_, viewport_sample_, dof_ring_count_,
                   dof_sample_count_, motion_blur_steps_, reset_,
                   interactive_mode_, clamp_data_, dimensions, infinite_taken,
                   is_reset_ret, dof_ret, syncs_since_reset>>

(***************************************************************************)
(* Sampling::end_sync()                                                    *)
(***************************************************************************)
EndSyncViewportSample_AlwaysZero(reset, vs) == 0

EndSyncViewportSample_Ignored(reset, vs) == vs

EndSyncViewportSample(reset, vs) == IF reset THEN 0 ELSE vs

InteractiveEligible_Inclusive(vs, threshold) == vs <= threshold

InteractiveEligible(vs, threshold) == vs < threshold

interactive_mode_disabled(c, sc) ==
  ~sc.taa_reprojection \/ is_viewport_image_render(c)

DisabledSample_Kept(vs, s) == s

\* The absolute index written when interactive mode is disabled (line 113).
DisabledSample(vs, s) == vs

\* The absolute index written by the interactive branch (lines 115-126).
InteractiveSample(vs, s, interactive_sample_count) ==
  IF vs < interactive_sample_count
    THEN s % interactive_sample_count
    ELSE interactive_sample_count

EndSync ==
  LET vs == EndSyncViewportSample(reset_, viewport_sample_)
      eligible == InteractiveEligible(vs, interactive_mode_threshold)
  IN /\ viewport_sample_' = vs
     /\ IF is_viewport(ctx)
          THEN IF interactive_mode_disabled(ctx, scene)
                 THEN /\ interactive_mode_' = FALSE
                      /\ sample_' = DisabledSample(vs, sample_)
                 ELSE /\ interactive_mode_' = eligible
                      /\ sample_' = IF eligible
                                      THEN InteractiveSample(vs, sample_,
                                             interactive_sample_max_)
                                      ELSE sample_
          ELSE UNCHANGED <<interactive_mode_, sample_>>
     /\ syncs_since_reset' = IF syncs_since_reset < 0 THEN -1
                            ELSE IF syncs_since_reset < 2 THEN syncs_since_reset + 1
                            ELSE 2
     /\ last_op' = "end_sync"
     /\ UNCHANGED <<cdf, inverted_cdf, invert_trace, ctx, scene, interactive_mode_threshold,
                    interactive_sample_max_, sample_count_, dof_ring_count_,
                    dof_sample_count_, motion_blur_steps_, reset_, clamp_data_,
                    dimensions, infinite_taken, is_reset_ret, dof_ret>>

(***************************************************************************)
(* Low discrepancy sequence (BLI_halton_2d / BLI_halton_3d, BLI_rand, not  *)
(* part of src/): the radical inverse of the index in each prime base, as  *)
(* an exact fraction <<num, den>> with den a power of the base.            *)
(***************************************************************************)
RECURSIVE RadicalInverse(_, _)
RadicalInverse(n, base) ==
  IF n = 0
    THEN <<0, 1>>
    ELSE LET r == RadicalInverse(n \div base, base)
         IN <<(n % base) * r[2] + r[1], r[2] * base>>

BLI_halton_2d(primes, n) ==
  <<RadicalInverse(n, primes[1]), RadicalInverse(n, primes[2])>>

BLI_halton_3d(primes, n) ==
  <<RadicalInverse(n, primes[1]), RadicalInverse(n, primes[2]),
    RadicalInverse(n, primes[3])>>

\* r + a / base for a fraction r whose denominator is a power of base.
AddOffset(r, a, base) == <<r[1] + a * (r[2] \div base), r[2]>>

\* fractf(x) = x - floorf(x)
fractf(x) == <<x[1] % x[2], x[2]>>

(***************************************************************************)
(* Sampling::step(): the blocks that fill data_.dimensions.                *)
(***************************************************************************)
Slots ==
  {"SAMPLING_FILTER_U", "SAMPLING_FILTER_V", "SAMPLING_TIME",
   "SAMPLING_CLOSURE", "SAMPLING_RAYTRACE_X",
   "SAMPLING_LENS_U", "SAMPLING_LENS_V", "SAMPLING_LIGHTPROBE",
   "SAMPLING_TRANSPARENCY", "SAMPLING_AO_U", "SAMPLING_AO_V", "SAMPLING_AO_W",
   "SAMPLING_CURVES_U",
   "SAMPLING_SHADOW_U", "SAMPLING_SHADOW_V", "SAMPLING_SHADOW_W",
   "SAMPLING_RAYTRACE_U", "SAMPLING_RAYTRACE_V", "SAMPLING_RAYTRACE_W",
   "SAMPLING_SHADOW_I", "SAMPLING_SHADOW_J", "SAMPLING_SHADOW_K",
   "SAMPLING_VOLUME_U", "SAMPLING_VOLUME_V", "SAMPLING_VOLUME_W",
   "SAMPLING_SHADOW_X", "SAMPLING_SHADOW_Y", "SAMPLING_SSS_U", "SAMPLING_SSS_V",
   "SAMPLING_UNUSED_0", "SAMPLING_UNUSED_1", "SAMPLING_UNUSED_2"}

SAMPLING_DIMENSION_COUNT == Cardinality(Slots)

FilterDims_NoFract(sample, interactive, scaling_factor) ==
  LET sample_filter0 == sample \div square_i(scaling_factor)
      sample_filter == IF interactive
                         THEN sample_filter0 % interactive_sample_aa_
                         ELSE sample_filter0
      r == BLI_halton_2d(<<2, 3>>, sample_filter + 1)
  IN [SAMPLING_FILTER_U   |-> AddOffset(r[1], 1, 2),
      SAMPLING_FILTER_V   |-> AddOffset(r[2], 2, 3),
      SAMPLING_TIME       |-> r[1],
      SAMPLING_CLOSURE    |-> r[2],
      SAMPLING_RAYTRACE_X |-> r[1]]

FilterDims(sample, interactive, scaling_factor) ==
  LET sample_filter0 == sample \div square_i(scaling_factor)
      sample_filter == IF interactive
                         THEN sample_filter0 % interactive_sample_aa_
                         ELSE sample_filter0
      r == BLI_halton_2d(<<2, 3>>, sample_filter + 1)
  IN [SAMPLING_FILTER_U   |-> fractf(AddOffset(r[1], 1, 2)),
      SAMPLING_FILTER_V   |-> fractf(AddOffset(r[2], 2, 3)),
      SAMPLING_TIME       |-> r[1],
      SAMPLING_CLOSURE    |-> r[2],
      SAMPLING_RAYTRACE_X |-> r[1]]

LensDims(sample) ==
  LET r == BLI_halton_3d(<<5, 7, 3>>, sample + 1)
  IN [SAMPLING_LENS_U       |-> r[1],
      SAMPLING_LENS_V       |-> r[2],
      SAMPLING_LIGHTPROBE   |-> r[1],
      SAMPLING_TRANSPARENCY |-> r[2],
      SAMPLING_AO_U         |-> r[1],
      SAMPLING_AO_V         |-> r[2],
      SAMPLING_AO_W         |-> r[3],
      SAMPLING_CURVES_U     |-> r[1]]

RaytraceDims(sample, interactive) ==
  LET sample_raytrace == IF interactive
                           THEN sample % interactive_sample_raytrace_
                           ELSE sample
      leap == 13
      r == BLI_halton_3d(<<5, 7, 11>>, sample_raytrace * leap + 1)
  IN [SAMPLING_SHADOW_U   |-> r[1],
      SAMPLING_SHADOW_V   |-> r[2],
      SAMPLING_SHADOW_W   |-> r[3],
      SAMPLING_RAYTRACE_U |-> r[1],
      SAMPLING_RAYTRACE_V |-> r[2],
      SAMPLING_RAYTRACE_W |-> r[3]]

ShadowIJKDims(sample) ==
  LET r == BLI_halton_3d(<<2, 3, 5>>, sample + 1)
  IN [SAMPLING_SHADOW_I |-> fractf(AddOffset(r[1], 1, 2)),
      SAMPLING_SHADOW_J |-> fractf(AddOffset(r[2], 2, 3)),
      SAMPLING_SHADOW_K |-> fractf(AddOffset(r[3], 4, 5))]

VolumeDims(sample, interactive) ==
  LET sample_volume == IF interactive
                         THEN sample % interactive_sample_volume_
                         ELSE sample
      r == BLI_halton_3d(<<2, 3, 5>>, sample_volume + 1)
  IN [SAMPLING_VOLUME_U |-> fractf(AddOffset(r[1], 1, 2)),
      SAMPLING_VOLUME_V |-> fractf(AddOffset(r[2], 2, 3)),
      SAMPLING_VOLUME_W |-> fractf(AddOffset(r[3], 4, 5))]

ShadowXYDims(sample) ==
  LET leap == 5
      r == BLI_halton_2d(<<2, 3>>, sample * leap + 1)
  IN [SAMPLING_SHADOW_X |-> r[1],
      SAMPLING_SHADOW_Y |-> r[2],
      SAMPLING_SSS_U    |-> r[1],
      SAMPLING_SSS_V    |-> r[2]]

UnusedDims ==
  [SAMPLING_UNUSED_0 |-> <<0, 1>>,
   SAMPLING_UNUSED_1 |-> <<0, 1>>,
   SAMPLING_UNUSED_2 |-> <<0, 1>>]

StepDimensions(sample, interactive, scaling_factor) ==
  FilterDims(sample, interactive, scaling_factor) @@ LensDims(sample)
    @@ RaytraceDims(sample, interactive) @@ ShadowIJKDims(sample)
    @@ VolumeDims(sample, interactive) @@ ShadowXYDims(sample) @@ UnusedDims

\* The two BLI_assert of lines 232-233 for one slot value.
InUnitRange(v) == 0 <= v[1] /\ v[1] < v[2]

StepViewportSample_Skipped(vs) == vs

StepViewportSample(vs) == vs + 1

StepSample_Wrapping(s) == (s + 1) % 4

StepSample(s) == s + 1

StepResetFlag_Kept(reset) == reset

StepResetFlag(reset) == FALSE

StepUpTo(max) ==
  \E scaling_factor \in ScalingFactors :
    /\ sample_ < max
    /\ viewport_sample_ < max
    /\ dimensions' = StepDimensions(sample_, interactive_mode_, scaling_factor)
    /\ viewport_sample_' = StepViewportSample(viewport_sample_)
    /\ sample_' = StepSample(sample_)
    /\ reset_' = StepResetFlag(reset_)
    /\ last_op' = "step"
    /\ UNCHANGED <<cdf, inverted_cdf, invert_trace, ctx, scene, interactive_mode_threshold,
                   interactive_sample_max_, sample_count_, dof_ring_count_,
                   dof_sample_count_, motion_blur_steps_, interactive_mode_,
                   clamp_data_, infinite_taken, is_reset_ret, dof_ret,
                   syncs_since_reset>>

Step == StepUpTo(MaxSample)

StepDof == StepUpTo(MaxDofSample)

(***************************************************************************)
(* Sampling::reset() / Sampling::is_reset()                                *)
(***************************************************************************)
Reset ==
  /\ is_viewport(ctx)
  /\ reset_' = TRUE
  /\ syncs_since_reset' = 0
  /\ last_op' = "reset"
  /\ UNCHANGED <<cdf, inverted_cdf, invert_trace, ctx, scene, interactive_mode_threshold,
                 interactive_sample_max_, sample_, viewport_sample_,
                 sample_count_, dof_ring_count_, dof_sample_count_,
                 motion_blur_steps_, interactive_mode_, clamp_data_,
                 dimensions, infinite_taken, is_reset_ret, dof_ret>>

IsReset ==
  /\ is_viewport(ctx)
  /\ is_reset_ret' = reset_
  /\ last_op' = "is_reset"
  /\ UNCHANGED <<cdf, inverted_cdf, invert_trace, ctx, scene, interactive_mode_threshold,
                 interactive_sample_max_, sample_, viewport_sample_,
                 sample_count_, dof_ring_count_, dof_sample_count_,
                 motion_blur_steps_, reset_, interactive_mode_, clamp_data_,
                 dimensions, infinite_taken, dof_ret, syncs_since_reset>>

(***************************************************************************)
(* Sampling::dof_disk_sample_get()                                         *)
(***************************************************************************)
RECURSIVE Pow2Mod(_, _)
Pow2Mod(e, m) == IF e = 0 THEN 1 % m ELSE (2 * Pow2Mod(e - 1, m)) % m

ModAsUint64_NoWrap(s, m) == s

\* (int -> uint64_t) s % m, for a 32 bit s and a 64 bit m.
ModAsUint64(s, m) ==
  IF s >= 0 THEN s % m ELSE (Pow2Mod(64, m) + (s % m)) % m

RECURSIVE DofRingWalk(_, _, _, _, _)
DofRingWalk(s, ring, ring_sample_count, ring_sample, samples_passed) ==
  IF s >= samples_passed
    THEN LET ring2 == ring + 1
             count2 == ring2 * dof_web_density_
         IN DofRingWalk(s, ring2, count2,
                        ((s - samples_passed) + 1) % count2,
                        samples_passed + count2)
    ELSE [ring |-> ring, ring_sample_count |-> ring_sample_count,
          ring_sample |-> ring_sample]

\* ring, ring_sample and ring_sample_count at line 341; the radius is
\* ring / dof_ring_count_ and the angle 2 pi ring_sample / ring_sample_count.
dof_disk_sample_get(sample, ring_count, dof_samples) ==
  IF ring_count = 0
    THEN [zero |-> TRUE, ring |-> 0, ring_sample_count |-> 1, ring_sample |-> 0]
    ELSE LET s0 == (sample - 1) * (dof_web_density_ - 1)
             s == ModAsUint64(s0, dof_samples)
         IN [zero |-> FALSE] @@ DofRingWalk(s, 0, 1, 1, 1)

DofDiskSampleGet ==
  /\ dof_ret' = [called |-> TRUE] @@
                dof_disk_sample_get(sample_, dof_ring_count_, dof_sample_count_)
  /\ last_op' = "dof_disk_sample_get"
  /\ UNCHANGED <<cdf, inverted_cdf, invert_trace, ctx, scene, interactive_mode_threshold,
                 interactive_sample_max_, sample_, viewport_sample_,
                 sample_count_, dof_ring_count_, dof_sample_count_,
                 motion_blur_steps_, reset_, interactive_mode_, clamp_data_,
                 dimensions, infinite_taken, is_reset_ret, syncs_since_reset>>

(***************************************************************************)
(* The object after construction (member initialisers of the header).      *)
(***************************************************************************)
InitOver(S, K) ==
  /\ ctx \in Contexts
  /\ scene \in S
  /\ \E k \in K :
       /\ interactive_mode_threshold = k[1]
       /\ interactive_sample_max_ = k[2]
  /\ sample_ = 0
  /\ viewport_sample_ = 0
  /\ sample_count_ = 64
  /\ dof_ring_count_ = 0
  /\ dof_sample_count_ = 1
  /\ motion_blur_steps_ = 1
  /\ reset_ = FALSE
  /\ interactive_mode_ = FALSE
  /\ clamp_data_ = [sun_threshold |-> <<0, 0>>, surface_direct |-> <<0, 0>>,
                    surface_indirect |-> <<0, 0>>, volume_direct |-> <<0, 0>>,
                    volume_indirect |-> <<0, 0>>]
  /\ dimensions = [d \in Slots |-> <<0, 1>>]
  /\ infinite_taken = FALSE
  /\ is_reset_ret = FALSE
  /\ dof_ret = [called |-> FALSE, zero |-> TRUE, ring |-> 0,
                ring_sample_count |-> 1, ring_sample |-> 0]
  /\ syncs_since_reset = -1
  /\ inverted_cdf = <<>>
  /\ invert_trace = <<>>
  /\ last_op = "construct"

Init == InitOver(SyncScenes, InteractiveConstants) /\ cdf = <<>>

Next ==
  \/ InitScene
  \/ InitProbe
  \/ EndSync
  \/ Step
  \/ Reset
  \/ IsReset

Spec == Init /\ [][Next]_vars

\* The sample count derivation over every combination of settings.
InitAny == InitOver(SyncScenes, {<<2, 4>>}) /\ cdf = <<>>

NextInit ==
  \/ InitSceneAny
  \/ InitProbe

SpecInit == InitAny /\ [][NextInit]_vars

\* The depth of field web sampler over a whole period of the pattern.
DofScenes ==
  { SceneOf(0, taa, 1, 1, FALSE, 1, dof, TRUE,
            CHOOSE c \in ClampConfigs : c.sun_threshold = <<5, 0>>) :
      taa \in {0, 3, 10}, dof \in BOOLEAN }

InitDof ==
  /\ InitOver(DofScenes, {<<2, 4>>})
  /\ ctx = "viewport"
  /\ cdf = <<>>

InitSceneDof == InitSceneOver(DofScenes)

NextDof ==
  \/ InitSceneDof
  \/ StepDof
  \/ DofDiskSampleGet

SpecDof == InitDof /\ [][NextDof]_vars


(***************************************************************************)
(* float values of the CDF functions: an exact fraction <<num, den>> in    *)
(* lowest terms with den > 0, NaN as <<0, 0>> and +-inf as <<+-1, 0>>.     *)
(* Rounding is not modelled.                                               *)
(***************************************************************************)
RECURSIVE Gcd(_, _)
Gcd(a, b) == IF b = 0 THEN a ELSE Gcd(b, a % b)

Abs(a) == IF a < 0 THEN -a ELSE a

NaN == <<0, 0>>

Sign(a) == IF a > 0 THEN 1 ELSE IF a < 0 THEN -1 ELSE 0

Float(n, d) ==
  IF d = 0
    THEN <<Sign(n), 0>>
    ELSE LET g == Gcd(Abs(n), Abs(d))
         IN <<Sign(d) * (n \div g), Abs(d) \div g>>

IsFinite(a) == a[2] > 0

FAdd(a, b) ==
  IF IsFinite(a) /\ IsFinite(b)
    THEN Float(a[1] * b[2] + b[1] * a[2], a[2] * b[2])
    ELSE NaN

FSub(a, b) ==
  IF IsFinite(a) /\ IsFinite(b)
    THEN Float(a[1] * b[2] - b[1] * a[2], a[2] * b[2])
    ELSE NaN

FDiv(a, b) ==
  IF IsFinite(a) /\ IsFinite(b)
    THEN Float(a[1] * b[2], a[2] * b[1])
    ELSE NaN

\* a >= b; false when either side is NaN.
FGe(a, b) == IsFinite(a) /\ IsFinite(b) /\ a[1] * b[2] >= b[1] * a[2]

clamp_f(value, min, max) ==
  IF FGe(value, max) /\ value # max THEN max
  ELSE IF FGe(min, value) /\ value # min THEN min
  ELSE value

(***************************************************************************)
(* Sampling::cdf_from_curvemapping()                                       *)
(***************************************************************************)
\* BKE_curvemapping_evaluateF(&curve, 0, x): the values a curve can take.
CurveValues == {Float(0, 1), Float(1, 1), Float(3, 1)}

\* The first loop: cdf[0] = 0, cdf[u + 1] = cdf[u] + curve(x_u).
RECURSIVE CdfAccumulate(_, _)
CdfAccumulate(curve, n) ==
  IF n = 1
    THEN <<Float(0, 1)>>
    ELSE LET prev == CdfAccumulate(curve, n - 1)
         IN Append(prev, FAdd(prev[n - 1], curve[n - 1]))

\* The second loop divides every entry by the live cdf.last(), which is the
\* accumulated total until the final iteration; line 365 then stores 1.
cdf_from_curvemapping(curve, size) ==
  LET acc == CdfAccumulate(curve, size)
      total == acc[size]
  IN [u \in 1 .. size |->
        IF u = size THEN Float(1, 1) ELSE FDiv(acc[u], total)]

CdfFromCurvemapping ==
  \E size \in 2 .. MaxCdfLen :
    \E curve \in [1 .. (size - 1) -> CurveValues] :
      /\ cdf' = cdf_from_curvemapping(curve, size)
      /\ last_op' = "cdf_from_curvemapping"
      /\ UNCHANGED <<ctx, scene, interactive_mode_threshold,
                     interactive_sample_max_, sample_, viewport_sample_,
                     sample_count_, dof_ring_count_, dof_sample_count_,
                     motion_blur_steps_, reset_, interactive_mode_,
                     clamp_data_, dimensions, infinite_taken, is_reset_ret,
                     dof_ret, syncs_since_reset, inverted_cdf, invert_trace>>

(***************************************************************************)
(* Sampling::cdf_invert()                                                  *)
(***************************************************************************)
\* An entry of inverted_cdf that the loop did not assign.
Unwritten == <<0, -1>>

QueryPoint_Unclamped(u, size) == FDiv(Float(u, 1), Float(size - 1, 1))

\* x of line 372 for the 0 based index u of an output of the given size.
QueryPoint(u, size) ==
  clamp_f(FDiv(Float(u, 1), Float(size - 1, 1)),
          Float(1, 100000), FSub(Float(1, 1), Float(1, 100000)))

\* The first 0 based index i >= 1 with cdf[i] >= x, or 0 when the inner
\* loop ends without reaching its break.
RECURSIVE CdfSearch(_, _, _)
CdfSearch(c, x, i) ==
  IF i > Len(c) - 1 THEN 0
  ELSE IF FGe(c[i + 1], x) THEN i
  ELSE CdfSearch(c, x, i + 1)

InterpolationT_FromLower(x, ci, cprev) == FDiv(FSub(x, cprev), FSub(ci, cprev))

\* t of line 375.
InterpolationT(x, ci, cprev) == FDiv(FSub(x, ci), FSub(ci, cprev))

cdf_invert_entry(c, u, size) ==
  LET x == QueryPoint(u, size)
      i == CdfSearch(c, x, 1)
  IN IF i = 0
       THEN [found |-> FALSE, index |-> 0, denominator |-> NaN,
             value |-> Unwritten]
       ELSE [found |-> TRUE, index |-> i,
             denominator |-> FSub(c[i + 1], c[i]),
             value |-> FDiv(FAdd(Float(i, 1),
                                 InterpolationT(x, c[i + 1], c[i])),
                            Float(Len(c) - 1, 1))]

CdfInvert ==
  \E size \in 2 .. MaxCdfLen :
    /\ Len(cdf) > 1
    /\ LET entry == [u \in 1 .. size |-> cdf_invert_entry(cdf, u - 1, size)]
       IN /\ inverted_cdf' = [u \in 1 .. size |-> entry[u].value]
          /\ invert_trace' = [u \in 1 .. size |->
                                [found |-> entry[u].found,
                                 index |-> entry[u].index,
                                 denominator |-> entry[u].denominator]]
    /\ last_op' = "cdf_invert"
    /\ UNCHANGED <<ctx, scene, interactive_mode_threshold,
                   interactive_sample_max_, sample_, viewport_sample_,
                   sample_count_, dof_ring_count_, dof_sample_count_,
                   motion_blur_steps_, reset_, interactive_mode_,
                   clamp_data_, dimensions, infinite_taken, is_reset_ret,
                   dof_ret, syncs_since_reset, cdf>>

\* Vectors a caller may hand to cdf_invert without building them here.
InitialCdfs ==
  { <<Float(0, 1), Float(1, 1)>>,
    <<Float(0, 1), Float(1, 2), Float(1, 2), Float(1, 1)>>,
    <<Float(0, 1), Float(1, 2), Float(1, 4), Float(1, 1)>> }

InitCdf ==
  /\ InitOver({CHOOSE sc \in SyncScenes : sc.dof_jitter /\ sc.taa_reprojection},
              {<<2, 4>>})
  /\ ctx = "viewport"
  /\ cdf \in InitialCdfs

NextCdf ==
  \/ CdfFromCurvemapping
  \/ CdfInvert

SpecCdf == InitCdf /\ [][NextCdf]_vars

(***************************************************************************)
(* Properties.                                                             *)
(***************************************************************************)
ResetSinceSync == syncs_since_reset = 0

\* C1: an end_sync() that directly follows reset() zeroes the viewport
\* relative counter, and an end_sync() with no reset() since the previous
\* end_sync() leaves the counter at the value it had.
C1_ResetZeroesOnce ==
  [][last_op' = "end_sync" =>
       /\ (last_op = "reset" => viewport_sample_' = 0)
       /\ (~ResetSinceSync => viewport_sample_' = viewport_sample_)]_vars

\* C1 witness: a second end_sync() after a reset, with samples taken since.
C1_Witness ==
  /\ last_op = "end_sync"
  /\ syncs_since_reset = 2
  /\ viewport_sample_ > 0

\* C2 as stated: the absolute sample index decreases only on the transition
\* that applies a pending reset request.
C2_MonotonicExceptReset ==
  [][sample_' < sample_ => (last_op' = "end_sync" /\ reset_)]_vars

\* C2 amended: the absolute sample index never decreases in step(), reset(),
\* is_reset() or init(scene); it decreases only in init(probe) or in a
\* viewport end_sync() that applies a reset, wraps or latches in interactive
\* mode, or copies the viewport counter because interactive mode is disabled.
C2_DecreaseOnlyInSync ==
  [][sample_' < sample_ =>
       \/ last_op' = "init_probe"
       \/ /\ last_op' = "end_sync"
          /\ is_viewport(ctx)
          /\ \/ reset_
             \/ interactive_mode_'
             \/ interactive_mode_disabled(ctx, scene)]_vars

\* C2 witness: the index wrapped in an end_sync() with no reset pending.
C2_Witness ==
  /\ last_op = "end_sync"
  /\ ~reset_
  /\ interactive_mode_
  /\ sample_ < viewport_sample_

C4_LatchAtCap ==
  [][(last_op' = "end_sync" /\ ctx = "viewport" /\ scene.taa_reprojection) =>
       /\ (viewport_sample_' >= interactive_sample_max_
             => sample_' = interactive_sample_max_)
       /\ (viewport_sample_' < interactive_sample_max_ /\ interactive_mode_'
             => sample_' < interactive_sample_max_)]_vars

\* C5: after end_sync() in a viewport with reprojection on and no image
\* render, the interactive flag is true exactly when the viewport counter is
\* below interactive_mode_threshold.
C5_InteractiveFlag ==
  (last_op = "end_sync" /\ ctx = "viewport" /\ scene.taa_reprojection) =>
    (interactive_mode_ <=> viewport_sample_ < interactive_mode_threshold)

\* C5 witness: end_sync() ran with the viewport counter at the threshold.
C5_Witness ==
  /\ last_op = "end_sync"
  /\ ctx = "viewport"
  /\ scene.taa_reprojection
  /\ viewport_sample_ = interactive_mode_threshold
  /\ ~interactive_mode_

\* C6: dof_disk_sample_get gives radius 0 and angle 0 for ring count 0, and
\* otherwise a ring in 0..dof_ring_count_ and a slot in
\* 0..ring_sample_count-1 (angle below 2 pi).
C6_DofRange ==
  last_op = "dof_disk_sample_get" =>
    IF dof_ring_count_ = 0
      THEN dof_ret.zero
      ELSE /\ 0 <= dof_ret.ring
           /\ dof_ret.ring <= dof_ring_count_
           /\ 0 <= dof_ret.ring_sample
           /\ dof_ret.ring_sample < dof_ret.ring_sample_count

\* C7 as stated: init(scene) in a viewport with a sample target of 0 leaves
\* sample_count_ equal to the infinite sentinel.
C7_ViewportZeroIsInfinite ==
  (last_op = "init_scene" /\ is_viewport(ctx) /\ scene.taa_samples = 0) =>
    sample_count_ = infinite_sample_count_

\* C7 amended: init(scene) in a viewport that is not an image render, with a
\* sample target of 0, substitutes the infinite sentinel; sample_count_ is the
\* sentinel when DoF jitter is off and the sentinel rounded up to a multiple
\* of dof_sample_count_ (6 rings) when it is on.
C7_ViewportZeroFromInfinite ==
  (last_op = "init_scene" /\ ctx = "viewport" /\ scene.taa_samples = 0) =>
    /\ infinite_taken
    /\ dof_ring_count_ = (IF scene.dof_jitter THEN 6 ELSE 0)
    /\ dof_sample_count_ = (IF scene.dof_jitter THEN 127 ELSE 1)
    /\ sample_count_ % dof_sample_count_ = 0
    /\ sample_count_ >= infinite_sample_count_
    /\ sample_count_ - dof_sample_count_ < infinite_sample_count_

\* C7 witness: the sentinel was rounded up by the jittered DoF.
C7_Witness ==
  /\ last_op = "init_scene"
  /\ ctx = "viewport"
  /\ scene.taa_samples = 0
  /\ scene.dof_jitter
  /\ scene.pixel_size > 1
  /\ sample_count_ > infinite_sample_count_

\* C8 as stated: init(scene) of a final render with an effective target of 0
\* gives sample_count_ = 1, never 0 and never the sentinel substitution.
C8_FinalZeroIsOne ==
  (last_op = "init_scene" /\ ctx = "render") =>
    /\ sample_count_ # 0
    /\ ~infinite_taken
    /\ (RenderSampleCount(scene) = 0 => sample_count_ = 1)

\* C8 amended: init(scene) of a final render with an effective target of 0
\* gives sample_count_ = motion_blur_steps_ (1 unless motion blur is on);
\* a final render never ends with sample_count_ = 0 and never takes the
\* sentinel substitution.
C8_FinalZeroIsSteps ==
  (last_op = "init_scene" /\ ctx = "render") =>
    /\ sample_count_ >= 1
    /\ ~infinite_taken
    /\ motion_blur_steps_ =
         (IF scene.mblur THEN scene.motion_blur_steps ELSE 1)
    /\ (RenderSampleCount(scene) = 0 => sample_count_ = motion_blur_steps_)

\* C8 witness: a final render with target 0 and three motion blur steps.
C8_Witness ==
  /\ last_op = "init_scene"
  /\ ctx = "render"
  /\ RenderSampleCount(scene) = 0
  /\ motion_blur_steps_ = 3
  /\ sample_count_ = 3

\* C9: with DoF jitter on, sample_count_ / motion_blur_steps_ is the least
\* multiple of dof_sample_count_ not below the pre-jitter count, where
\* dof_sample_count_ is the web size of dof_ring_count_, and sample_count_ is
\* that value times motion_blur_steps_; with DoF jitter off the ring count is
\* 0 and dof_sample_count_ is 1.
C9_DofRounding ==
  last_op = "init_scene" =>
    IF scene.dof_jitter
      THEN LET per == sample_count_ \div motion_blur_steps_
               pre == PreJitterCount(ctx, scene)
           IN /\ sample_count_ = per * motion_blur_steps_
              /\ dof_sample_count_ =
                   ((dof_ring_count_ * (dof_ring_count_ + 1)) \div 2)
                     * dof_web_density_ + 1
              /\ per % dof_sample_count_ = 0
              /\ per >= pre
              /\ per - dof_sample_count_ < pre
      ELSE /\ dof_ring_count_ = 0
           /\ dof_sample_count_ = 1

\* C9 witness: ten render samples over three motion blur steps, rounded up
\* from 4 to the 7 samples of a one ring web.
C9_Witness ==
  /\ last_op = "init_scene"
  /\ scene.dof_jitter
  /\ motion_blur_steps_ = 3
  /\ PreJitterCount(ctx, scene) = 4
  /\ dof_sample_count_ = 7
  /\ sample_count_ = 21

C12_ResetHeldUntilSync ==
  [][/\ last_op' = "reset"
          => /\ reset_'
             /\ sample_' = sample_
             /\ viewport_sample_' = viewport_sample_
             /\ interactive_mode_' = interactive_mode_
     /\ (last_op' = "is_reset" /\ ResetSinceSync) => is_reset_ret'
     /\ (last_op' = "end_sync" /\ ResetSinceSync) => viewport_sample_' = 0]_vars

\* C12 amended: reset() only sets the flag and leaves both counters and the
\* interactive flag unchanged; the flag stays set, and is_reset() returns
\* true, until the next step(), which clears it; an end_sync() that finds
\* the flag set zeroes the viewport relative counter, and nothing else makes
\* a positive viewport relative counter 0.
C12_ResetHeldUntilStep ==
  [][/\ last_op' = "reset"
          => /\ reset_'
             /\ sample_' = sample_
             /\ viewport_sample_' = viewport_sample_
             /\ interactive_mode_' = interactive_mode_
     /\ (reset_ /\ last_op' # "step") => reset_'
     /\ last_op' = "step" => ~reset_'
     /\ last_op' = "is_reset" => is_reset_ret' = reset_
     /\ (last_op' = "end_sync" /\ reset_) => viewport_sample_' = 0
     /\ (viewport_sample_ > 0 /\ viewport_sample_' = 0)
          => (last_op' = "end_sync" /\ reset_)]_vars

\* C12 witness: is_reset() answered true after a reset() with the counters
\* advanced and no end_sync() yet.
C12_Witness ==
  /\ last_op = "is_reset"
  /\ is_reset_ret
  /\ ResetSinceSync
  /\ viewport_sample_ > 0
  /\ sample_ > 0

\* C14: after init(scene) each of the five clamp thresholds is positive: the
\* configured value when that is > 0 and the sentinel 1e20 otherwise.
C14_ClampPositive ==
  last_op = "init_scene" =>
    LET Loaded(out, in) ==
          /\ out[1] > 0
          /\ out = (IF in[1] > 0 THEN in ELSE <<1, 20>>)
    IN /\ Loaded(clamp_data_.sun_threshold, scene.clamp.sun_threshold)
       /\ Loaded(clamp_data_.surface_direct, scene.clamp.clamp_surface_direct)
       /\ Loaded(clamp_data_.surface_indirect,
                 scene.clamp.clamp_surface_indirect)
       /\ Loaded(clamp_data_.volume_direct, scene.clamp.clamp_volume_direct)
       /\ Loaded(clamp_data_.volume_indirect,
                 scene.clamp.clamp_volume_indirect)

\* C14 witness: a zero, a negative and a positive configured value loaded.
C14_Witness ==
  /\ last_op = "init_scene"
  /\ scene.clamp.clamp_surface_direct = <<0, 0>>
  /\ scene.clamp.clamp_volume_direct = <<-1, 0>>
  /\ clamp_data_.surface_direct = <<1, 20>>
  /\ clamp_data_.volume_direct = <<1, 20>>
  /\ clamp_data_.sun_threshold = <<5, 0>>

\* C15: step() adds exactly 1 to the absolute and to the viewport relative
\* index, leaves the reset flag false, and keeps sample_count_, the DoF
\* counts and the interactive flag.
C15_StepIncrements ==
  [][last_op' = "step" =>
       /\ sample_' = sample_ + 1
       /\ viewport_sample_' = viewport_sample_ + 1
       /\ ~reset_'
       /\ UNCHANGED <<sample_count_, dof_ring_count_, dof_sample_count_,
                      interactive_mode_>>]_vars

\* C15 witness: a step() in interactive mode that cleared a pending reset.
C15_Witness ==
  /\ last_op = "step"
  /\ interactive_mode_
  /\ ResetSinceSync
  /\ ~reset_
  /\ sample_ > viewport_sample_

\* C16: an end_sync() in a viewport with reprojection off or a viewport
\* image render leaves the interactive flag false and the absolute index
\* equal to the viewport relative index, and both stay so over later step(),
\* end_sync(), reset() and is_reset() calls under that configuration.
C16_DisabledCountersEqual ==
  [][/\ (last_op' = "end_sync" /\ is_viewport(ctx)
           /\ interactive_mode_disabled(ctx, scene))
          => /\ ~interactive_mode_'
             /\ sample_' = viewport_sample_'
     /\ (/\ is_viewport(ctx)
         /\ interactive_mode_disabled(ctx, scene)
         /\ interactive_mode_disabled(ctx, scene')
         /\ ~interactive_mode_
         /\ sample_ = viewport_sample_)
          => /\ ~interactive_mode_'
             /\ sample_' = viewport_sample_']_vars

\* C16 witness: with reprojection off, the counters are equal and advanced
\* after a reset was applied and samples were taken.
C16_Witness ==
  /\ last_op = "step"
  /\ ctx = "viewport"
  /\ ~scene.taa_reprojection
  /\ syncs_since_reset = 2
  /\ ~interactive_mode_
  /\ sample_ = viewport_sample_
  /\ viewport_sample_ > 1

\* The web position of a result: the centre, or <<ring, slot>>.
DofPosition(r) == IF r.ring = 0 THEN <<0, 0>> ELSE <<r.ring, r.ring_sample>>

DofWeb(rings) ==
  {<<0, 0>>} \cup
  UNION { { <<k, j>> : j \in 0 .. (k * dof_web_density_ - 1) } : k \in 1 .. rings }

\* C18: with dof_ring_count_ > 0, dof_sample_count_ consecutive sample
\* indices from 1 on select every position of the web exactly once (the
\* centre, and each of the k * dof_web_density_ slots of ring k), and the
\* slot count used for ring k is k * dof_web_density_.
C18_DofCoverage ==
  (last_op = "dof_disk_sample_get" /\ dof_ring_count_ > 0 /\ sample_ >= 1) =>
    LET Result(j) == dof_disk_sample_get(sample_ + j, dof_ring_count_,
                                         dof_sample_count_)
        window == 0 .. (dof_sample_count_ - 1)
    IN /\ DofPosition(dof_ret) = DofPosition(Result(0))
       /\ { DofPosition(Result(j)) : j \in window } = DofWeb(dof_ring_count_)
       /\ \A i, j \in window :
            DofPosition(Result(i)) = DofPosition(Result(j)) => i = j
       /\ \A j \in window :
            Result(j).ring > 0 =>
              Result(j).ring_sample_count = Result(j).ring * dof_web_density_

\* C18 witness: the sampler ran at the first index of a period of the two
\* ring web and returned the centre.
C18_Witness ==
  /\ last_op = "dof_disk_sample_get"
  /\ dof_ring_count_ = 2
  /\ dof_sample_count_ = 19
  /\ sample_ = 1
  /\ dof_ret.ring = 0

\* C11: cdf_from_curvemapping on non-negative curve values yields a sequence
\* that starts at exactly 0, ends at exactly 1 and never decreases.
C11_CdfNormalised ==
  last_op = "cdf_from_curvemapping" =>
    /\ cdf[1] = Float(0, 1)
    /\ cdf[Len(cdf)] = Float(1, 1)
    /\ \A i \in 1 .. (Len(cdf) - 1) : FGe(cdf[i + 1], cdf[i])

IsIdentityCdf(c) ==
  /\ Len(c) > 1
  /\ \A i \in 1 .. Len(c) : c[i] = Float(i - 1, Len(c) - 1)

\* C13: for the identity CDF and an output of the same length, cdf_invert
\* writes the clamped query point clamp(u / (M - 1), 1e-5, 1 - 1e-5) to
\* every entry u.
C13_IdentityInverts ==
  (last_op = "cdf_invert" /\ IsIdentityCdf(cdf)
     /\ Len(inverted_cdf) = Len(cdf)) =>
    \A u \in 1 .. Len(inverted_cdf) :
      inverted_cdf[u] =
        (IF u = 1 THEN <<1, 100000>>
         ELSE IF u = Len(inverted_cdf) THEN <<99999, 100000>>
         ELSE Float(u - 1, Len(inverted_cdf) - 1))

\* C13 witness: an identity CDF of more than two entries was inverted into
\* an output of the same length.
C13_Witness ==
  /\ last_op = "cdf_invert"
  /\ IsIdentityCdf(cdf)
  /\ Len(cdf) > 2
  /\ Len(inverted_cdf) = Len(cdf)

\* C17: for a CDF with first element 0 and last element 1, cdf_invert finds
\* an index for every query point, writes every entry, and divides by a
\* strictly positive cdf[i] - cdf[i - 1].
C17_BracketFound ==
  (last_op = "cdf_invert" /\ cdf[1] = Float(0, 1)
     /\ cdf[Len(cdf)] = Float(1, 1)) =>
    \A u \in 1 .. Len(inverted_cdf) :
      /\ invert_trace[u].found
      /\ inverted_cdf[u] # Unwritten
      /\ IsFinite(invert_trace[u].denominator)
      /\ invert_trace[u].denominator[1] > 0

\* C17 witness: a CDF that is flat at its start was inverted and the first
\* query point skipped the flat segment.
C17_Witness ==
  /\ last_op = "cdf_invert"
  /\ Len(cdf) = 3
  /\ cdf[1] = Float(0, 1)
  /\ cdf[2] = Float(0, 1)
  /\ cdf[3] = Float(1, 1)
  /\ Len(inverted_cdf) = 3
  /\ invert_trace[1].index = 2

====
